---- MODULE Spec2Model ----
(***************************************************************************)
(* Model of the InNoHassle-Auth provider routes: the Innopolis SSO login   *)
(* and callback handlers with their mismatch recovery and redirect guard,  *)
(* the Telegram widget connect/login handlers, and the session             *)
(* dependencies.  One action is one HTTP request handled from start to     *)
(* response; the session is the browser's signed session cookie, read at   *)
(* the start of the request and written back with the response.            *)
(***************************************************************************)
EXTENDS Integers, FiniteSets, Sequences, TLC

VARIABLES
    session,    \* request.session: a dict, key -> value
    issued,     \* number of OAuth state values generated by authorize_redirect
    users,      \* ids of the user documents that exist
    created,    \* number of user documents ever created (ids are not reused)
    sso,        \* user id -> SSO subject the user was registered with
    telegram,   \* user id -> Telegram id written onto the user document
    last,       \* the last request handled: route, inputs, outcome
    flows,      \* email flow id -> the EmailFlow document
    verifiers,  \* the validate-code requests in flight, one per worker
    tabs        \* the browser tabs that share the session cookie

vars == <<session, issued, users, created, sso, telegram, last, flows, verifiers, tabs>>

\* the state of the email routes, and of the browser's tabs
emailVars == <<flows, verifiers>>
tabVars == <<tabs>>

-----------------------------------------------------------------------------
(* Bounds of the model *)

\* authorize_redirect generates at most this many state values
MaxLogins == 2
\* at most this many user documents are ever created
MaxUsers == 2
\* Telegram account ids 1..MaxTelegram
MaxTelegram == 1
\* at most this many email flows are started
MaxFlows == 1
\* validate-code requests handled at the same time
MaxVerifiers == 2
\* browser tabs sharing one session
MaxTabs == 2

-----------------------------------------------------------------------------
(* Python values *)

\* Python's None (the result of dict.get on a missing key, an omitted parameter)
None == "None"

\* mutant: a test for None in place of the truth value
Truthy_IsNotNone(v) == v # None

\* Python's truthiness of a str-or-None value: None and "" are falsy
Truthy(v) == v # None /\ v # ""

\* an empty dict
EmptyDict == [k \in {} |-> None]

\* d.get(k)
Get(d, k) == IF k \in DOMAIN d THEN d[k] ELSE None

\* d[k] = v
Put(d, k, v) == [x \in DOMAIN d \cup {k} |-> IF x = k THEN v ELSE d[x]]

\* del d[k] / the dict left by d.pop(k)
Del(d, k) == [x \in DOMAIN d \ {k} |-> d[x]]

-----------------------------------------------------------------------------
(* Requests and tabs that are not active *)

Verifiers == 1..MaxVerifiers
Tabs == 1..MaxTabs

\* a worker that handles no validate-code request
IdleVerifier == [pc |-> "idle", email_flow_id |-> 0, verification_code |-> None,
                 user_id |-> 0, observed |-> None]

\* a tab that has not opened the login entry point
IdleTab == [at |-> "idle", state |-> 0, redirect_uri |-> None]

\* no email flow exists and no validate-code request is in flight
NoEmail ==
    /\ flows = EmptyDict
    /\ verifiers = [v \in Verifiers |-> IdleVerifier]

\* the requests are not attributed to tabs
NoTabs == tabs = [t \in Tabs |-> IdleTab]

-----------------------------------------------------------------------------
(* Configuration (src.config.settings) *)

\* settings.auth.allowed_domains
allowed_domains == {"app.example", "api.example"}

\* settings.web_url, the default landing page
web_url == "https://app.example/"

-----------------------------------------------------------------------------
(* Redirect guard *)

\* The redirect_uri values a client may supply.
RedirectUris ==
    { "",                               \* empty string
      "/dashboard",                     \* relative path
      "https://app.example/profile",    \* allowed host
      "https://api.example:8443/me",    \* allowed host, with a port
      "https://evil.example/steal",     \* host outside the allow-list
      "//evil.example/steal",           \* scheme-relative, host outside the allow-list
      "http://[::1/x" }                 \* malformed: URL() raises ValueError

\* URL(return_to).hostname: raises |-> TRUE when parsing raises ValueError,
\* hostname |-> None when the URL has no host component.
UrlHostname(return_to) ==
    CASE return_to = ""                            -> [raises |-> FALSE, hostname |-> None]
      [] return_to = "/dashboard"                  -> [raises |-> FALSE, hostname |-> None]
      [] return_to = "https://app.example/profile" -> [raises |-> FALSE, hostname |-> "app.example"]
      [] return_to = "https://api.example:8443/me" -> [raises |-> FALSE, hostname |-> "api.example"]
      [] return_to = "https://evil.example/steal"  -> [raises |-> FALSE, hostname |-> "evil.example"]
      [] return_to = "//evil.example/steal"        -> [raises |-> FALSE, hostname |-> "evil.example"]
      [] return_to = "http://[::1/x"               -> [raises |-> TRUE,  hostname |-> None]
      [] return_to = web_url                       -> [raises |-> FALSE, hostname |-> "app.example"]

\* mutant: the guard lets every well-formed URL through
ensure_allowed_redirect_uri_AnyHost(return_to) ==
    ~UrlHostname(return_to).raises

\* ensure_allowed_redirect_uri: TRUE when it returns, FALSE when it raises
\* InvalidReturnToURL.
ensure_allowed_redirect_uri(return_to) ==
    LET url == UrlHostname(return_to) IN
    IF url.raises THEN FALSE                      \* except (AssertionError, ValueError)
    ELSE IF url.hostname = None THEN TRUE         \* allow returning to the current domain
    ELSE IF url.hostname \in allowed_domains THEN TRUE
    ELSE FALSE

-----------------------------------------------------------------------------
(* Responses *)

\* A response.  kind: "redirect" (RedirectResponse or the provider redirect),
\* "json" (a JSON body) or "raise" (an exception turned into an error response).
\* to: where a redirect goes: "provider", "login" (the login entry point),
\* "uri" (a redirect_uri) or "web_url".  uri: the redirect_uri that is the
\* target ("uri") or that is carried as query parameter ("login").
NoResponse ==
    [kind |-> "none", status |-> "-", to |-> "-", uri |-> None, state |-> 0,
     prompt |-> None, error |-> None, description |-> None,
     need_to_connect |-> FALSE]

RedirectResponse(to, uri) ==
    [NoResponse EXCEPT !.kind = "redirect", !.status = "302", !.to = to, !.uri = uri]

Raise(exception) ==
    [NoResponse EXCEPT !.kind = "raise", !.error = exception]

\* the request routes and the guard calls made while handling the request
Handled(op, req, resp, guarded) ==
    [op |-> op, req |-> req, resp |-> resp, guarded |-> guarded]

-----------------------------------------------------------------------------
(* OAuth client (authlib): state data kept in the session *)

\* the session key under which authorize_redirect saves the state data
StateKey(n) == "_state_innopolis_" \o ToString(n)

-----------------------------------------------------------------------------
(* GET /innopolis/login *)

\* lines 39-45 for a validated redirect_uri, given the state that
\* authorize_redirect generates: the session the handler leaves and its response
login_or_register(redirect_uri, prompt, state) ==
    LET s1 == EmptyDict                                \* request.session.clear()
        s2 == Put(s1, "redirect_uri", redirect_uri)
        s3 == IF prompt # None THEN Put(s2, "prompt", prompt) ELSE s2
        s4 == Put(s3, StateKey(state), "data")
    IN [session |-> s4,
        resp |-> [RedirectResponse("provider", None) EXCEPT
                     !.state = state,
                     !.prompt = IF prompt # None THEN prompt ELSE None]]

\* mutant: the redirect_uri is stored without being validated
innopolis_login_or_register_NoGuard(redirect_uri, prompt) ==
    /\ issued < MaxLogins
    /\ LET req == [redirect_uri |-> redirect_uri, prompt |-> prompt] IN
       IF FALSE
       THEN /\ last' = Handled("login", req, Raise("InvalidReturnToURL"), {})
            /\ UNCHANGED <<session, issued>>
       ELSE LET s1 == EmptyDict                                \* request.session.clear()
                s2 == Put(s1, "redirect_uri", redirect_uri)
                s3 == IF prompt # None THEN Put(s2, "prompt", prompt) ELSE s2
                state == issued + 1                            \* authorize_redirect: fresh state
                s4 == Put(s3, StateKey(state), "data")
                resp == [RedirectResponse("provider", None) EXCEPT
                            !.state = state,
                            !.prompt = IF prompt # None THEN prompt ELSE None]
            IN /\ session' = s4
               /\ issued' = state
               /\ last' = Handled("login", req, resp, {redirect_uri})
    /\ UNCHANGED <<users, created, sso, telegram>>

\* mutant: the session is not cleared before the new attempt is stored
innopolis_login_or_register_NoClear(redirect_uri, prompt) ==
    /\ ensure_allowed_redirect_uri(redirect_uri) => issued < MaxLogins
    /\ LET req == [redirect_uri |-> redirect_uri, prompt |-> prompt] IN
       IF ~ensure_allowed_redirect_uri(redirect_uri)
       THEN /\ last' = Handled("login", req, Raise("InvalidReturnToURL"), {})
            /\ UNCHANGED <<session, issued>>
       ELSE LET s1 == session
                s2 == Put(s1, "redirect_uri", redirect_uri)
                s3 == IF prompt # None THEN Put(s2, "prompt", prompt) ELSE s2
                state == issued + 1                            \* authorize_redirect: fresh state
                s4 == Put(s3, StateKey(state), "data")
                resp == [RedirectResponse("provider", None) EXCEPT
                            !.state = state,
                            !.prompt = IF prompt # None THEN prompt ELSE None]
            IN /\ session' = s4
               /\ issued' = state
               /\ last' = Handled("login", req, resp, {redirect_uri})
    /\ UNCHANGED <<users, created, sso, telegram>>

innopolis_login_or_register(redirect_uri, prompt) ==
    /\ ensure_allowed_redirect_uri(redirect_uri) => issued < MaxLogins
    /\ LET req == [redirect_uri |-> redirect_uri, prompt |-> prompt] IN
       IF ~ensure_allowed_redirect_uri(redirect_uri)
       THEN /\ last' = Handled("login", req, Raise("InvalidReturnToURL"), {})
            /\ UNCHANGED <<session, issued>>
       ELSE LET state == issued + 1                            \* authorize_redirect: fresh state
                r == login_or_register(redirect_uri, prompt, state)
            IN /\ session' = r.session
               /\ issued' = state
               /\ last' = Handled("login", req, r.resp, {redirect_uri})
    /\ UNCHANGED <<users, created, sso, telegram>>

-----------------------------------------------------------------------------
(* User repository (src.modules.users.repository) *)

\* the SSO subjects (e-mail claims) the provider can assert
SsoSubjects == {"alice@innopolis", "bob@innopolis"}

\* str(user.id), as stored under session["uid"]
Str(id) == ToString(id)

\* PydanticObjectId(uid): the id a session uid string denotes
ObjectId(uid) == CHOOSE id \in 1..(MaxUsers + 1) : Str(id) = uid

\* the user documents registered with an SSO subject
BySsoSubject(db, subject) == {u \in db.users : db.sso[u] = subject}

\* register_or_update_via_innopolis_sso: the user of the subject, created when
\* there is none.  db is [users, created, sso]; the result adds user, the id of
\* the resolved user.
register_or_update_via_innopolis_sso(db, subject) ==
    IF BySsoSubject(db, subject) # {}
    THEN [db EXCEPT !.user = CHOOSE u \in BySsoSubject(db, subject) : TRUE]
    ELSE LET id == db.created + 1 IN
         [users |-> db.users \cup {id}, created |-> id,
          sso |-> Put(db.sso, id, subject), user |-> id]

\* the user documents carrying a Telegram id
ByTelegramId(telegram_id) ==
    {u \in users : u \in DOMAIN telegram /\ telegram[u] = telegram_id}

-----------------------------------------------------------------------------
(* GET /innopolis/callback *)

\* mutant: the stored redirect_uri is used without being validated again
recover_mismatching_state_Unguarded(sess) ==
    LET redirect_uri == Get(sess, "redirect_uri")
        user_id == Get(sess, "uid")
    IN [guarded |-> {},
        resp |->
          IF user_id # None
          THEN IF Truthy(redirect_uri)
               THEN RedirectResponse("uri", redirect_uri)
               ELSE RedirectResponse("web_url", None)
          ELSE IF Truthy(redirect_uri)
               THEN RedirectResponse("login", redirect_uri)
               ELSE RedirectResponse("web_url", None)]

\* recover_mismatching_state: the response, and the values the guard accepted
recover_mismatching_state(sess) ==
    LET redirect_uri == Get(sess, "redirect_uri")
        user_id == Get(sess, "uid")
        guarded == IF Truthy(redirect_uri) /\ ensure_allowed_redirect_uri(redirect_uri)
                   THEN {redirect_uri} ELSE {}
    IN [guarded |-> guarded,
        resp |->
          IF user_id # None
          THEN IF Truthy(redirect_uri)
               THEN IF ensure_allowed_redirect_uri(redirect_uri)
                    THEN RedirectResponse("uri", redirect_uri)
                    ELSE Raise("InvalidReturnToURL")
               ELSE RedirectResponse("web_url", None)
          ELSE IF Truthy(redirect_uri)
               THEN IF ensure_allowed_redirect_uri(redirect_uri)
                    THEN RedirectResponse("login", redirect_uri)
                    ELSE Raise("InvalidReturnToURL")
               ELSE RedirectResponse("web_url", None)]

\* One statement of the callback's success path (lines 72-76) applied to the
\* request context c = [session, db, redirect_uri, exc, guarded, steps].
CallbackStatement(stmt, c, subject) ==
    LET c1 == [c EXCEPT !.steps = Append(@, stmt)] IN
    CASE stmt = "register_or_update" ->
            [c1 EXCEPT !.db = register_or_update_via_innopolis_sso(c.db, subject)]
      [] stmt = "pop_redirect_uri" ->
            IF "redirect_uri" \in DOMAIN c.session
            THEN [c1 EXCEPT !.redirect_uri = c.session["redirect_uri"],
                            !.session = Del(c.session, "redirect_uri")]
            ELSE [c1 EXCEPT !.exc = "KeyError"]
      [] stmt = "ensure_allowed_redirect_uri" ->
            IF ensure_allowed_redirect_uri(c.redirect_uri)
            THEN [c1 EXCEPT !.guarded = @ \cup {c.redirect_uri}]
            ELSE [c1 EXCEPT !.exc = "InvalidReturnToURL"]
      [] stmt = "session_clear" ->
            [c1 EXCEPT !.session = EmptyDict]
      [] stmt = "set_uid" ->
            [c1 EXCEPT !.session = Put(c.session, "uid", Str(c.db.user))]

\* the statements in order, stopping at the first that raises
RECURSIVE RunCallback(_, _, _)
RunCallback(stmts, c, subject) ==
    IF stmts = <<>> \/ c.exc # None THEN c
    ELSE RunCallback(Tail(stmts), CallbackStatement(Head(stmts), c, subject), subject)

\* mutant: the uid is written before the session is cleared
CallbackSuccessPath_UidBeforeClear ==
    <<"register_or_update", "pop_redirect_uri", "ensure_allowed_redirect_uri",
      "set_uid", "session_clear">>

\* the success path of innopolis_callback, lines 72-76
CallbackSuccessPath ==
    <<"register_or_update", "pop_redirect_uri", "ensure_allowed_redirect_uri",
      "session_clear", "set_uid">>

\* The values the provider's redirect can carry in the error parameter.
ProviderErrors == {None, "", "access_denied", "login_required"}

\* What the token exchange ends with once the state matched.
Exchanges == {"token", "OAuthError"}

\* mutant: a failed silent probe is not told apart from a failed login
IsSilentProbe_Never(prompt) == FALSE

\* line 54: the failed attempt was a silent probe
IsSilentProbe(prompt) == prompt = "none"

\* error: the error query parameter; description: error_description;
\* state: the state query parameter (0: none, or one the client never got);
\* exchange, subject: what the provider answers to the token request.
innopolis_callback(error, description, state, exchange, subject) ==
    LET req == [error |-> error, description |-> description, state |-> state,
                exchange |-> exchange, subject |-> subject]
        db == [users |-> users, created |-> created, sso |-> sso, user |-> 0]
    IN
    IF Truthy(error)
    THEN \* explicit error from SSO
         /\ exchange = "OAuthError" /\ subject = None
         /\ LET prompt == Get(session, "prompt") IN
            IF IsSilentProbe(prompt)
            THEN IF "redirect_uri" \notin DOMAIN session
                 THEN \* pop raises KeyError: 500, the session is not saved
                      /\ last' = Handled("callback_error", req,
                                   [Raise("KeyError") EXCEPT !.status = "500"], {})
                      /\ UNCHANGED session
                 ELSE LET redirect_uri == session["redirect_uri"]
                          s1 == Del(session, "redirect_uri")
                      IN IF ~ensure_allowed_redirect_uri(redirect_uri)
                         THEN /\ session' = s1
                              /\ last' = Handled("callback_error", req,
                                                 Raise("InvalidReturnToURL"), {})
                         ELSE /\ session' = EmptyDict
                              /\ last' = Handled("callback_error", req,
                                           RedirectResponse("uri", redirect_uri),
                                           {redirect_uri})
            ELSE /\ last' = Handled("callback_error", req,
                              [NoResponse EXCEPT !.kind = "json", !.status = "403",
                                  !.error = error, !.description = description], {})
                 /\ UNCHANGED session
         /\ UNCHANGED <<issued, users, created, sso, telegram>>
    ELSE
    /\ description = None
    /\ LET key == StateKey(state)
           \* authorize_access_token: get_state_data, then clear_state_data
           matched == key \in DOMAIN session
           s0 == Del(session, key)
       IN
       IF ~matched \/ exchange = "OAuthError"
       THEN \* MismatchingStateError, or another OAuthError of the token request
            /\ exchange = "OAuthError" /\ subject = None
            /\ LET r == recover_mismatching_state(s0) IN
               /\ last' = Handled(IF matched THEN "callback_oauth_error"
                                  ELSE "callback_mismatch", req, r.resp, r.guarded)
               /\ session' = s0
            /\ UNCHANGED <<issued, users, created, sso, telegram>>
       ELSE /\ subject \in SsoSubjects
            /\ BySsoSubject(db, subject) = {} => created < MaxUsers
            /\ LET c0 == [session |-> s0, db |-> db, redirect_uri |-> None,
                          exc |-> None, guarded |-> {}, steps |-> <<>>]
                   c == RunCallback(CallbackSuccessPath, c0, subject)
               IN /\ users' = c.db.users
                  /\ created' = c.db.created
                  /\ sso' = c.db.sso
                  /\ session' = IF c.exc = "KeyError" THEN session ELSE c.session
                  /\ last' = Handled("callback_success",
                                [error |-> error, description |-> description,
                                 state |-> state, exchange |-> exchange,
                                 subject |-> subject, user |-> c.db.user,
                                 steps |-> c.steps],
                                IF c.exc = None
                                THEN RedirectResponse("uri", c.redirect_uri)
                                ELSE IF c.exc = "KeyError"
                                THEN [Raise("KeyError") EXCEPT !.status = "500"]
                                ELSE Raise(c.exc),
                                c.guarded)
            /\ UNCHANGED <<issued, telegram>>

-----------------------------------------------------------------------------
(* Session dependencies (src/api/dependencies.py) *)

\* no PydanticObjectId: the None a dependency returns for "no user"
NoId == 0

\* The value of `exists = user_repository.exists(uid)`.  The call is not
\* awaited: it is the stored answer when the repository method is a plain
\* function, and a coroutine object, which is truthy, when it is a coroutine
\* function.
ExistsValues(id) == {id \in users, TRUE}

\* _get_optional_uid_from_session, given the value of `exists`:
\* the user id (or NoId), whether it raises UserWithoutSessionException,
\* and the session it leaves.
get_optional_uid_from_session(sess, exists) ==
    LET uid == Get(sess, "uid") IN
    IF uid = None
    THEN [user_id |-> NoId, raises |-> FALSE, session |-> sess]
    ELSE IF ~exists
    THEN [user_id |-> NoId, raises |-> TRUE, session |-> EmptyDict]
    ELSE [user_id |-> ObjectId(uid), raises |-> FALSE, session |-> sess]

\* mutant: a missing uid is passed on instead of raising
get_uid_from_session_NoRaise(sess, exists) ==
    get_optional_uid_from_session(sess, exists)

\* _get_uid_from_session
get_uid_from_session(sess, exists) ==
    LET r == get_optional_uid_from_session(sess, exists) IN
    IF ~r.raises /\ r.user_id = NoId THEN [r EXCEPT !.raises = TRUE] ELSE r

\* the values `exists` can take for the session's uid
SessionExistsValues ==
    IF "uid" \in DOMAIN session THEN ExistsValues(ObjectId(session["uid"])) ELSE {TRUE}

-----------------------------------------------------------------------------
(* Telegram widget payloads and their verification *)

\* settings.telegram.bot_token, and a token that is not the bot's
bot_token == "bot-token"

Sha256(data) == <<"sha256", data>>
HmacSha256(key, msg) == <<"hmac-sha256", key, msg>>

\* _get_secret_key
get_secret_key == Sha256(bot_token)

\* TelegramWidgetData.encoded: the data-check string of the signed fields
Encoded(id, auth_date) == <<"auth_date", auth_date, "id", id>>

\* aware_utcnow().timestamp() when the request is handled
Nows == {1700000000}

\* auth_date of a payload, relative to the time of the request: the edges of
\* the 5-minute window on both sides, and the time of the request itself
AuthDateOffsets ==
    {0 - 5 * 60 - 1, 0 - 5 * 60, 1 - 5 * 60, 0, 5 * 60 - 1, 5 * 60, 5 * 60 + 1}

\* the offsets the requests of Spec are drawn from: fresh, and too old
RequestOffsets == {0, 5 * 60}

TelegramIds == 1..MaxTelegram

\* The payloads a client can post at time now with auth_date at one of the
\* offsets: signed by Telegram for the posted fields, signed with another
\* token, or signed by Telegram for another id (the id was changed afterwards).
WidgetPayloads(now, offsets) ==
    UNION { { [id |-> id, auth_date |-> now + d, hash |-> h] :
                h \in { HmacSha256(Sha256(bot_token), Encoded(id, now + d)),
                        HmacSha256(Sha256("another-token"), Encoded(id, now + d)),
                        HmacSha256(Sha256(bot_token), Encoded(id + 1, now + d)) } } :
            id \in TelegramIds, d \in offsets }

\* mutant: the edges of the window are accepted
validate_widget_hash_Inclusive(telegram_data, now) ==
    LET evaluated_hash == HmacSha256(get_secret_key,
                             Encoded(telegram_data.id, telegram_data.auth_date))
    IN IF now - 5 * 60 <= telegram_data.auth_date /\ telegram_data.auth_date <= now + 5 * 60
       THEN evaluated_hash = telegram_data.hash
       ELSE FALSE

\* mutant: the hash is not compared
validate_widget_hash_DateOnly(telegram_data, now) ==
    now - 5 * 60 < telegram_data.auth_date /\ telegram_data.auth_date < now + 5 * 60

validate_widget_hash(telegram_data, now) ==
    LET received_hash == telegram_data.hash
        encoded_telegram_data == Encoded(telegram_data.id, telegram_data.auth_date)
        evaluated_hash == HmacSha256(get_secret_key, encoded_telegram_data)
    IN IF now - 5 * 60 < telegram_data.auth_date /\ telegram_data.auth_date < now + 5 * 60
       THEN evaluated_hash = received_hash
       ELSE FALSE

-----------------------------------------------------------------------------
(* POST /telegram/connect *)

\* user_repository.update_telegram: the Telegram id is written on the user's document
update_telegram(user_id, telegram_data) ==
    IF user_id \in users THEN Put(telegram, user_id, telegram_data.id) ELSE telegram

telegram_connect(telegram_data, now, exists) ==
    LET req == [telegram_data |-> telegram_data, now |-> now]
        dep == get_uid_from_session(session, exists)
    IN
    /\ IF dep.raises
       THEN /\ session' = dep.session
            /\ last' = Handled("telegram_connect", req,
                               Raise("UserWithoutSessionException"), {})
            /\ UNCHANGED telegram
       ELSE IF ~validate_widget_hash(telegram_data, now)
       THEN /\ last' = Handled("telegram_connect", req,
                               Raise("InvalidTelegramWidgetHash"), {})
            /\ UNCHANGED <<session, telegram>>
       ELSE /\ telegram' = update_telegram(dep.user_id, telegram_data)
            /\ last' = Handled("telegram_connect", req,
                               [NoResponse EXCEPT !.kind = "json", !.status = "200"], {})
            /\ UNCHANGED session
    /\ UNCHANGED <<issued, users, created, sso>>

-----------------------------------------------------------------------------
(* POST /telegram/login *)

\* user_repository.read_by_telegram_id: a user carrying the id, or NoId
read_by_telegram_id(telegram_id) ==
    IF ByTelegramId(telegram_id) = {} THEN {NoId} ELSE ByTelegramId(telegram_id)

TelegramLoginResponse(need_to_connect) ==
    [NoResponse EXCEPT !.kind = "json", !.status = "200",
                       !.need_to_connect = need_to_connect]

telegram_login(telegram_data, now, exists, user_by_telegram_id) ==
    LET dep == get_optional_uid_from_session(session, exists)
        req == [telegram_data |-> telegram_data, now |-> now,
                uid |-> Get(session, "uid"), user_id |-> dep.user_id,
                user_by_telegram_id |-> user_by_telegram_id]
    IN
    /\ IF dep.raises
       THEN /\ session' = dep.session
            /\ last' = Handled("telegram_login", req,
                               Raise("UserWithoutSessionException"), {})
       ELSE IF ~validate_widget_hash(telegram_data, now)
       THEN /\ last' = Handled("telegram_login", req,
                               Raise("InvalidTelegramWidgetHash"), {})
            /\ UNCHANGED session
       ELSE IF user_by_telegram_id = NoId /\ dep.user_id # NoId
       THEN /\ last' = Handled("telegram_login", req, TelegramLoginResponse(TRUE), {})
            /\ UNCHANGED session
       ELSE IF user_by_telegram_id = NoId
       THEN /\ last' = Handled("telegram_login", req,
                               Raise("UserWithoutSessionException"), {})
            /\ UNCHANGED session
       ELSE /\ session' = Put(EmptyDict, "uid", Str(user_by_telegram_id))
            /\ last' = Handled("telegram_login", req, TelegramLoginResponse(FALSE), {})
    /\ UNCHANGED <<issued, users, created, sso, telegram>>

-----------------------------------------------------------------------------
(* The user repository's other clients *)

\* a user document is deleted
DeleteUser(u) ==
    /\ u \in users
    /\ users' = users \ {u}
    /\ sso' = Del(sso, u)
    /\ telegram' = Del(telegram, u)
    /\ last' = Handled("delete_user", [user |-> u], NoResponse, {})
    /\ UNCHANGED <<session, issued, created>>

-----------------------------------------------------------------------------
Init ==
    /\ NoEmail /\ NoTabs
    /\ session = EmptyDict
    /\ issued = 0
    /\ users = {}
    /\ created = 0
    /\ sso = EmptyDict
    /\ telegram = EmptyDict
    /\ last = Handled("none", EmptyDict, NoResponse, {})

Next ==
    \/ \E redirect_uri \in RedirectUris, prompt \in {None, "none"} :
          /\ innopolis_login_or_register(redirect_uri, prompt)
          /\ UNCHANGED <<emailVars, tabVars>>
    \/ \E error \in ProviderErrors, description \in {None, "denied"},
          state \in 0..issued, exchange \in Exchanges,
          subject \in SsoSubjects \cup {None} :
          /\ innopolis_callback(error, description, state, exchange, subject)
          /\ UNCHANGED <<emailVars, tabVars>>
    \/ \E now \in Nows : \E telegram_data \in WidgetPayloads(now, RequestOffsets) :
          \E exists \in SessionExistsValues :
             /\ telegram_connect(telegram_data, now, exists)
             /\ UNCHANGED <<emailVars, tabVars>>
    \/ \E now \in Nows : \E telegram_data \in WidgetPayloads(now, RequestOffsets) :
          \E exists \in SessionExistsValues :
             \E user_by_telegram_id \in read_by_telegram_id(telegram_data.id) :
                /\ telegram_login(telegram_data, now, exists, user_by_telegram_id)
                /\ UNCHANGED <<emailVars, tabVars>>
    \/ \E u \in users : DeleteUser(u) /\ UNCHANGED <<emailVars, tabVars>>

Spec == Init /\ [][Next]_vars

-----------------------------------------------------------------------------
(* Mismatch recovery as a function of the session *)

\* The sessions recovery can be handed: any combination of the keys the routes
\* write, with a redirect_uri the login entry point would have stored.
RecoverySessions ==
    LET Opt(k, vals) == {EmptyDict} \cup {Put(EmptyDict, k, v) : v \in vals}
        Merge(a, b) == [k \in DOMAIN a \cup DOMAIN b |->
                           IF k \in DOMAIN a THEN a[k] ELSE b[k]]
        uids == Opt("uid", {Str(u) : u \in 1..MaxUsers})
        uris == Opt("redirect_uri",
                    {u \in RedirectUris : ensure_allowed_redirect_uri(u)})
        prompts == Opt("prompt", {"none"})
        states == Opt(StateKey(MaxLogins), {"data"})
    IN {Merge(Merge(a, b), Merge(c, d)) :
           a \in uids, b \in uris, c \in prompts, d \in states}

InitRecover ==
    /\ NoEmail /\ NoTabs
    /\ session \in RecoverySessions
    /\ issued = MaxLogins
    /\ users = {}
    /\ created = 0
    /\ sso = EmptyDict
    /\ telegram = EmptyDict
    /\ last = Handled("none", EmptyDict, NoResponse, {})

\* a callback whose state does not match: recovery runs on the session as it is
RecoverStep ==
    /\ last.op = "none"
    /\ LET r == recover_mismatching_state(session) IN
       last' = Handled("callback_mismatch",
                       [error |-> None, description |-> None, state |-> 0,
                        exchange |-> "OAuthError", subject |-> None],
                       r.resp, r.guarded)
    /\ UNCHANGED <<session, issued, users, created, sso, telegram, emailVars, tabVars>>

SpecRecover == InitRecover /\ [][RecoverStep]_vars

-----------------------------------------------------------------------------
(* The signature verifier and the redirect guard as functions of their input *)

InitFunctions ==
    /\ NoEmail /\ NoTabs
    /\ session = EmptyDict
    /\ issued = 0
    /\ users = {}
    /\ created = 0
    /\ sso = EmptyDict
    /\ telegram = EmptyDict
    /\ \E now \in Nows :
          \E telegram_data \in WidgetPayloads(now, AuthDateOffsets) :
             \E return_to \in RedirectUris \cup {web_url} :
                last = Handled("input",
                               [telegram_data |-> telegram_data, now |-> now,
                                return_to |-> return_to],
                               NoResponse, {})

\* validate_widget_hash is applied to the payload
ValidateStep ==
    /\ last.op = "input"
    /\ last' = Handled("validate_widget_hash",
                       [telegram_data |-> last.req.telegram_data,
                        now |-> last.req.now,
                        result |-> validate_widget_hash(last.req.telegram_data,
                                                        last.req.now)],
                       NoResponse, {})
    /\ UNCHANGED <<session, issued, users, created, sso, telegram, emailVars, tabVars>>

\* ensure_allowed_redirect_uri is applied to the URL
GuardStep ==
    /\ last.op = "input"
    /\ LET return_to == last.req.return_to
           ok == ensure_allowed_redirect_uri(return_to)
       IN last' = Handled("ensure_allowed_redirect_uri",
                          [return_to |-> return_to, result |-> ok],
                          IF ok THEN NoResponse ELSE Raise("InvalidReturnToURL"),
                          IF ok THEN {return_to} ELSE {})
    /\ UNCHANGED <<session, issued, users, created, sso, telegram, emailVars, tabVars>>

SpecFunctions == InitFunctions /\ [][ValidateStep \/ GuardStep]_vars

-----------------------------------------------------------------------------
(* Email flows (src.modules.providers.email.repository) *)

Emails == {"user@innopolis.university"}

\* the verification codes a request can carry
Codes == {"111111", "222222"}

\* the code start_flow generates for a flow: the codes are random, and
\* renaming them changes no behaviour, so that one assignment stands for all
GeneratedCode(email_flow_id) ==
    IF email_flow_id % 2 = 1 THEN "111111" ELSE "222222"

\* the statuses a flow does not leave
TerminalStatuses == {"success", "expired"}

\* no document
NoFlow ==
    [email |-> None, verification_code |-> None, status |-> None,
     user_id |-> NoId, verified_by |-> NoId, elapsed |-> FALSE,
     dispatched |-> FALSE, transitions |-> 0]

\* the id of the next flow document
NextFlowId(fl) == Cardinality(DOMAIN fl) + 1

\* start_flow: a new document in status pending, with a generated code
start_flow(fl, email, user_id) ==
    Put(fl, NextFlowId(fl),
        [email |-> email, verification_code |-> GeneratedCode(NextFlowId(fl)),
         status |-> "pending", user_id |-> user_id,
         verified_by |-> NoId, elapsed |-> FALSE,
         dispatched |-> FALSE, transitions |-> 0])

\* set_sent: pending -> sent, and nothing when the flow is not pending
set_sent(fl, email_flow_id) ==
    IF email_flow_id \in DOMAIN fl /\ fl[email_flow_id].status = "pending"
    THEN [fl EXCEPT ![email_flow_id].status = "sent"]
    ELSE fl

-----------------------------------------------------------------------------
(* POST /email/connect *)

\* one statement of start_email_flow; st is the handler's local state and
\* the collection, inp the request and the outcomes of the SMTP calls
ConnectStatement(stmt, st, inp) ==
    LET s1 == [st EXCEPT !.steps = Append(@, stmt)] IN
    CASE stmt = "start_flow" ->
            [s1 EXCEPT !.flows = start_flow(st.flows, inp.email, inp.user_id),
                       !.email_flow_id = NextFlowId(st.flows)]
      [] stmt = "render_verification_message" ->
            IF inp.render_ok
            THEN [s1 EXCEPT !.message = <<st.flows[st.email_flow_id].email,
                                          st.flows[st.email_flow_id].verification_code>>]
            ELSE [s1 EXCEPT !.exc = "TemplateError"]
      [] stmt = "send" ->
            IF inp.send_ok
            THEN [s1 EXCEPT !.flows[st.email_flow_id].dispatched = TRUE]
            ELSE [s1 EXCEPT !.exc = "SMTPException"]
      [] stmt = "set_sent" ->
            [s1 EXCEPT !.flows = set_sent(st.flows, st.email_flow_id)]

\* the statements in order, stopping at the first that raises
RECURSIVE RunConnect(_, _, _)
RunConnect(stmts, st, inp) ==
    IF stmts = <<>> \/ st.exc # None THEN st
    ELSE RunConnect(Tail(stmts), ConnectStatement(Head(stmts), st, inp), inp)

\* mutant: the flow is marked sent before the message is handed to SMTP
EmailConnectPath_SentBeforeSend ==
    <<"start_flow", "render_verification_message", "set_sent", "send">>

\* the body of start_email_flow, lines 33-36
EmailConnectPath ==
    <<"start_flow", "render_verification_message", "send", "set_sent">>

\* a response of the email routes: the fields of EmailFlowReference and of
\* EmailFlowResult next to those of the other responses
EmailResponse(email_flow_id, flow_status, email, token) ==
    [kind |-> "json", status |-> "200", to |-> "-", uri |-> None, state |-> 0,
     prompt |-> None, error |-> None, description |-> None,
     need_to_connect |-> FALSE, email_flow_id |-> email_flow_id,
     flow_status |-> flow_status, email |-> email,
     email_verification_token |-> token]

start_email_flow(email, render_ok, send_ok, exists) ==
    LET dep == get_uid_from_session(session, exists)
        inp == [email |-> email, user_id |-> dep.user_id,
                render_ok |-> render_ok, send_ok |-> send_ok]
        st == RunConnect(EmailConnectPath,
                         [flows |-> flows, email_flow_id |-> 0, message |-> None,
                          exc |-> None, steps |-> <<>>],
                         inp)
        req == [email |-> email, render_ok |-> render_ok, send_ok |-> send_ok,
                steps |-> IF dep.raises THEN <<>> ELSE st.steps,
                email_flow_id |-> IF dep.raises THEN 0 ELSE st.email_flow_id]
    IN
    /\ IF dep.raises
       THEN /\ session' = dep.session
            /\ last' = Handled("email_connect", req,
                               Raise("UserWithoutSessionException"), {})
            /\ UNCHANGED flows
       ELSE /\ Cardinality(DOMAIN flows) < MaxFlows
            /\ flows' = st.flows
            /\ last' = Handled("email_connect", req,
                               IF st.exc # None THEN Raise(st.exc)
                               ELSE EmailResponse(st.email_flow_id, None, None, None),
                               {})
            /\ UNCHANGED session
    /\ UNCHANGED <<issued, users, created, sso, telegram, verifiers, tabVars>>

-----------------------------------------------------------------------------
(* verify_flow (src.modules.providers.email.repository) *)

\* the read of verify_flow: the status of the document, None when there is none
read_status(fl, email_flow_id) ==
    IF email_flow_id \in DOMAIN fl THEN fl[email_flow_id].status ELSE None

\* the checks of verify_flow on the status it read, in their order: not
\* found, already terminal, expiry, code comparison
verify_flow_check(fl, email_flow_id, observed, verification_code) ==
    IF observed = None THEN "not_found"
    ELSE IF observed \in TerminalStatuses THEN observed
    ELSE IF fl[email_flow_id].elapsed THEN "expired"
    ELSE IF verification_code # fl[email_flow_id].verification_code THEN "wrong_code"
    ELSE "success"

\* mutant: the terminal status is written whatever the status has become
compare_and_swap_Blind(fl, email_flow_id, expected, status, user_id) ==
    [ok |-> TRUE,
     flows |-> [fl EXCEPT ![email_flow_id].status = status,
                          ![email_flow_id].verified_by =
                              IF status = "success" THEN user_id ELSE @,
                          ![email_flow_id].transitions = @ + 1]]

\* the write of verify_flow: the terminal status replaces the status that
\* was read, and only that one; success records the subject
compare_and_swap(fl, email_flow_id, expected, status, user_id) ==
    IF fl[email_flow_id].status # expected
    THEN [ok |-> FALSE, flows |-> fl]
    ELSE [ok |-> TRUE,
          flows |-> [fl EXCEPT ![email_flow_id].status = status,
                               ![email_flow_id].verified_by =
                                   IF status = "success" THEN user_id ELSE @,
                               ![email_flow_id].transitions = @ + 1]]

\* mutant: a mismatch is written on the flow as its status
StoredOutcomes_WrongCode == {"success", "expired", "wrong_code"}

\* the outcomes verify_flow writes on the flow
StoredOutcomes == TerminalStatuses

\* verify_flow after its read: the collection it leaves, the status its
\* result is tagged with, and whether this call wrote the status
verify_flow(fl, email_flow_id, observed, verification_code, user_id) ==
    LET outcome == verify_flow_check(fl, email_flow_id, observed, verification_code)
        writes == observed # None /\ observed \notin TerminalStatuses
                  /\ outcome \in StoredOutcomes
        cas == compare_and_swap(fl, email_flow_id, observed, outcome, user_id)
    IN
    IF ~writes THEN [flows |-> fl, status |-> outcome, wrote |-> FALSE]
    ELSE IF cas.ok THEN [flows |-> cas.flows, status |-> outcome, wrote |-> TRUE]
    ELSE [flows |-> fl, status |-> fl[email_flow_id].status, wrote |-> FALSE]

-----------------------------------------------------------------------------
(* POST /email/validate-code-for-users *)

\* TokenRepository.create_email_flow_token
create_email_flow_token(email_flow_id) == <<"email_flow_token", email_flow_id>>

\* mutant: the result carries the status alone whatever it is
validate_code_route_StatusOnly(fl, email_flow_id, verification_result) ==
    EmailResponse(0, verification_result.status, None, None)

\* _validate_code_route, lines 56-63: the response for verify_flow's result
validate_code_route(fl, email_flow_id, verification_result) ==
    IF verification_result.status = "success"
    THEN EmailResponse(0, verification_result.status, fl[email_flow_id].email,
                       create_email_flow_token(email_flow_id))
    ELSE EmailResponse(0, verification_result.status, None, None)

\* the request of worker v follows, with none between them, a request that
\* was answered wrong-code for the same flow
AfterWrongCode(v, email_flow_id) ==
    \/ /\ last.op = "email_validate"
       /\ last.resp.kind = "json"
       /\ last.resp.flow_status = "wrong_code"
       /\ last.req.email_flow_id = email_flow_id
    \/ /\ last.op = "email_validate_read"
       /\ last.req.worker = v
       /\ last.req.after_wrong_code

\* end_email_flow up to the read of verify_flow: the dependency, then the
\* document is read by worker v
VerifyRead(v, email_flow_id, verification_code, exists) ==
    LET dep == get_uid_from_session(session, exists)
        req == [email_flow_id |-> email_flow_id,
                verification_code |-> verification_code, worker |-> v,
                after_wrong_code |-> AfterWrongCode(v, email_flow_id)]
    IN
    /\ verifiers[v].pc = "idle"
    /\ IF dep.raises
       THEN /\ session' = dep.session
            /\ last' = Handled("email_validate", req,
                               Raise("UserWithoutSessionException"), {})
            /\ UNCHANGED verifiers
       ELSE /\ verifiers' = [verifiers EXCEPT ![v] =
                   [pc |-> "read", email_flow_id |-> email_flow_id,
                    verification_code |-> verification_code,
                    user_id |-> dep.user_id,
                    observed |-> read_status(flows, email_flow_id)]]
            /\ last' = Handled("email_validate_read", req, NoResponse, {})
            /\ UNCHANGED session
    /\ UNCHANGED <<issued, users, created, sso, telegram, flows, tabVars>>

\* the rest of end_email_flow: verify_flow checks and writes, and
\* _validate_code_route answers
VerifyWrite(v) ==
    LET w == verifiers[v]
        verification_result == verify_flow(flows, w.email_flow_id, w.observed,
                                           w.verification_code, w.user_id)
        req == [email_flow_id |-> w.email_flow_id,
                verification_code |-> w.verification_code,
                observed |-> w.observed, wrote |-> verification_result.wrote,
                before |-> IF w.email_flow_id \in DOMAIN flows
                           THEN flows[w.email_flow_id] ELSE NoFlow,
                after_wrong_code |-> AfterWrongCode(v, w.email_flow_id)]
    IN
    /\ w.pc = "read"
    /\ flows' = verification_result.flows
    /\ verifiers' = [verifiers EXCEPT ![v] = IdleVerifier]
    /\ last' = Handled("email_validate", req,
                       validate_code_route(verification_result.flows,
                                           w.email_flow_id, verification_result),
                       {})
    /\ UNCHANGED <<session, issued, users, created, sso, telegram, tabVars>>

\* the TTL of a flow elapses
Elapse(email_flow_id) ==
    /\ email_flow_id \in DOMAIN flows
    /\ ~flows[email_flow_id].elapsed
    /\ flows' = [flows EXCEPT ![email_flow_id].elapsed = TRUE]
    /\ last' = Handled("elapse", [email_flow_id |-> email_flow_id], NoResponse, {})
    /\ UNCHANGED <<session, issued, users, created, sso, telegram, verifiers, tabVars>>

\* the count of status writes verify_flow made on a flow is kept on the
\* document as `transitions`, and whether SMTP took its message as
\* `dispatched`; `elapsed` is whether its TTL has passed

\* the email routes, used by a registered user with or without a session
InitEmail ==
    /\ NoEmail /\ NoTabs
    /\ session \in {EmptyDict, Put(EmptyDict, "uid", Str(1))}
    /\ issued = 0
    /\ users = {1}
    /\ created = 1
    /\ sso = Put(EmptyDict, 1, "alice@innopolis")
    /\ telegram = EmptyDict
    /\ last = Handled("none", EmptyDict, NoResponse, {})

NextEmail ==
    \/ \E email \in Emails, render_ok \in BOOLEAN, send_ok \in BOOLEAN,
          exists \in SessionExistsValues :
          start_email_flow(email, render_ok, send_ok, exists)
    \/ \E v \in Verifiers, email_flow_id \in 1..MaxFlows,
          verification_code \in Codes, exists \in SessionExistsValues :
          VerifyRead(v, email_flow_id, verification_code, exists)
    \/ \E v \in Verifiers : VerifyWrite(v)
    \/ \E email_flow_id \in 1..MaxFlows : Elapse(email_flow_id)

SpecEmail == InitEmail /\ [][NextEmail]_vars

-----------------------------------------------------------------------------
(* Browser tabs that share the session cookie *)

\* where the tabs ask to be sent after the login
TabUris == {"/dashboard", "https://app.example/profile", "https://api.example:8443/me"}

\* the state authorize_redirect generates: one that no tab holds
FreshState ==
    CHOOSE n \in 1..(MaxTabs + 1) :
        /\ \A u \in Tabs : tabs[u].state # n
        /\ \A m \in 1..(MaxTabs + 1) : (\A u \in Tabs : tabs[u].state # m) => n <= m

\* tab t opens the login entry point, or follows the redirect to it, and is
\* sent to the provider with the state
TabLogin(t) ==
    /\ tabs[t].at \in {"idle", "login"}
    /\ \E redirect_uri \in IF tabs[t].at = "idle" THEN TabUris
                           ELSE {tabs[t].redirect_uri} :
          LET req == [redirect_uri |-> redirect_uri, prompt |-> None, tab |-> t] IN
          IF ~ensure_allowed_redirect_uri(redirect_uri)
          THEN /\ last' = Handled("login", req, Raise("InvalidReturnToURL"), {})
               /\ tabs' = [tabs EXCEPT ![t] = [IdleTab EXCEPT !.at = "done"]]
               /\ UNCHANGED session
          ELSE LET r == login_or_register(redirect_uri, None, FreshState) IN
               /\ session' = r.session
               /\ last' = Handled("login", req, r.resp, {redirect_uri})
               /\ tabs' = [tabs EXCEPT ![t] =
                              [at |-> "provider", state |-> r.resp.state,
                               redirect_uri |-> None]]
    /\ UNCHANGED <<issued, users, created, sso, telegram, emailVars>>

\* the provider signs the user in and sends tab t to the callback with the
\* state the tab was given; the token request, when it is made, succeeds
TabCallback(t) ==
    /\ tabs[t].at = "provider"
    /\ \E exchange \in Exchanges, subject \in SsoSubjects \cup {None} :
          /\ StateKey(tabs[t].state) \in DOMAIN session => exchange = "token"
          /\ innopolis_callback(None, None, tabs[t].state, exchange, subject)
    /\ tabs' = [tabs EXCEPT ![t] =
                   IF last'.resp.kind = "redirect" /\ last'.resp.to = "login"
                   THEN [at |-> "login", state |-> 0, redirect_uri |-> last'.resp.uri]
                   ELSE [IdleTab EXCEPT !.at = "done"]]
    /\ UNCHANGED emailVars

\* the next request of tab t
TabStep(t) == TabLogin(t) \/ TabCallback(t)

InitTabs ==
    /\ NoEmail /\ NoTabs
    /\ session = EmptyDict
    /\ issued = 0
    /\ users = {}
    /\ created = 0
    /\ sso = EmptyDict
    /\ telegram = EmptyDict
    /\ last = Handled("none", EmptyDict, NoResponse, {})

NextTabs ==
    \/ \E t \in Tabs : TabLogin(t)
    \/ \E t \in Tabs : TabCallback(t)

\* each tab's pending request is eventually sent and handled
SpecTabs == InitTabs /\ [][NextTabs]_vars /\ \A t \in Tabs : WF_vars(TabStep(t))

-----------------------------------------------------------------------------
(* Terms of the claims *)

IsCallback(op) ==
    op \in {"callback_error", "callback_mismatch", "callback_oauth_error",
            "callback_success"}

\* the payload's hash is the HMAC of its own fields under the bot's key
SignedByTelegram(p) ==
    p.hash = HmacSha256(Sha256(bot_token), Encoded(p.id, p.auth_date))

\* the payload's timestamp is strictly inside the window around now
Fresh(p, now) == now - 300 < p.auth_date /\ p.auth_date < now + 300

\* a session that holds the uid of user u and nothing else
BoundTo(u) == Put(EmptyDict, "uid", Str(u))

-----------------------------------------------------------------------------
(* C1 *)

\* C1: open-redirect safety.  Every redirect issued by the login entry point,
\* the callback or mismatch recovery either targets the provider or the
\* default landing page, or targets (or, for the login entry point, carries) a
\* redirect_uri that the redirect guard accepted while handling that same
\* request.
C1_OpenRedirectSafe ==
    (last.op = "login" \/ IsCallback(last.op)) /\ last.resp.kind = "redirect" =>
        \/ last.resp.to \in {"provider", "web_url"} /\ last.resp.uri = None
        \/ /\ last.resp.to \in {"uri", "login"}
           /\ last.resp.uri \in last.guarded
           /\ last.op = "login" => last.resp.to = "provider"

\* recovery sends the browser back to the login entry point with a stored
\* absolute redirect_uri, which the guard accepted in that request
C1_Witness ==
    /\ last.op = "callback_mismatch"
    /\ last.resp.to = "login"
    /\ last.resp.uri = "https://app.example/profile"
    /\ last.resp.uri \in last.guarded

-----------------------------------------------------------------------------
(* C2 *)

\* C2: the session's uid changes to a user id only in a callback whose
\* exchange succeeded, to the user resolved from the provider's subject, or in
\* a widget login whose payload is signed by Telegram and fresh, to a user the
\* payload's id is linked to.
C2_UidSetOnlyByLogin ==
    [][ Get(session', "uid") # Get(session, "uid") /\ Get(session', "uid") # None =>
          \/ /\ last'.op = "callback_success"
             /\ last'.req.exchange = "token"
             /\ last'.req.user \in BySsoSubject(
                    [users |-> users', sso |-> sso'], last'.req.subject)
             /\ session'["uid"] = Str(last'.req.user)
          \/ /\ last'.op = "telegram_login"
             /\ SignedByTelegram(last'.req.telegram_data)
             /\ Fresh(last'.req.telegram_data, last'.req.now)
             /\ last'.req.user_by_telegram_id \in ByTelegramId(last'.req.telegram_data.id)
             /\ session'["uid"] = Str(last'.req.user_by_telegram_id)
      ]_vars

\* a widget login has switched the session to the user its payload is linked to
C2_Witness ==
    /\ last.op = "telegram_login"
    /\ last.resp.kind = "json" /\ ~last.resp.need_to_connect
    /\ last.req.uid # None
    /\ last.req.uid # Str(last.req.user_by_telegram_id)
    /\ session = BoundTo(last.req.user_by_telegram_id)

-----------------------------------------------------------------------------
(* C3 *)

\* C3: a callback whose exchange succeeds redirects to the redirect_uri the
\* session held when the callback began and leaves a session holding the uid of
\* the user resolved from the provider's subject and no other key; the
\* statements run in the order resolve user, pop redirect_uri, validate it,
\* clear the session, set uid.
C3_CallbackSuccess ==
    [][ last'.op = "callback_success" =>
          /\ "redirect_uri" \in DOMAIN session
          /\ last'.resp = RedirectResponse("uri", session["redirect_uri"])
          /\ last'.req.user \in BySsoSubject(
                 [users |-> users', sso |-> sso'], last'.req.subject)
          /\ session' = BoundTo(last'.req.user)
          /\ last'.req.steps = <<"register_or_update", "pop_redirect_uri",
                                 "ensure_allowed_redirect_uri", "session_clear",
                                 "set_uid">>
      ]_vars

\* a silent-probe login has completed: the session is bound, redirect_uri and
\* prompt are gone
C3_Witness ==
    /\ last.op = "callback_success"
    /\ last.resp.kind = "redirect" /\ last.resp.uri = "/dashboard"
    /\ session = BoundTo(last.req.user)

-----------------------------------------------------------------------------
(* C4 *)

\* C4: once a callback request has been processed, whatever its outcome, the
\* session holds neither redirect_uri nor prompt.
C4_CallbackClearsInFlightKeys ==
    IsCallback(last.op) =>
        "redirect_uri" \notin DOMAIN session /\ "prompt" \notin DOMAIN session

-----------------------------------------------------------------------------
(* C5 *)

\* C5 as stated: recovery decides on the presence of uid and redirect_uri:
\* (a) both present: redirect to the redirect_uri; (b) uid only: landing page;
\* (c) redirect_uri only: the login entry point with that redirect_uri;
\* (d) neither: landing page.
C5_RecoveryByPresence ==
    last.op = "callback_mismatch" =>
        LET uid == "uid" \in DOMAIN session
            uri == "redirect_uri" \in DOMAIN session
        IN last.resp =
             IF uid /\ uri THEN RedirectResponse("uri", session["redirect_uri"])
             ELSE IF uid THEN RedirectResponse("web_url", None)
             ELSE IF uri THEN RedirectResponse("login", session["redirect_uri"])
             ELSE RedirectResponse("web_url", None)

\* C5 amended: the four cases hold with "redirect_uri present" read as present
\* and not the empty string; a session whose redirect_uri is the empty string
\* is answered like one without redirect_uri, with the landing page.
C5_RecoveryByKnownUri ==
    last.op = "callback_mismatch" =>
        LET uid == "uid" \in DOMAIN session
            uri == "redirect_uri" \in DOMAIN session /\ session["redirect_uri"] # ""
        IN last.resp =
             IF uid /\ uri THEN RedirectResponse("uri", session["redirect_uri"])
             ELSE IF uid THEN RedirectResponse("web_url", None)
             ELSE IF uri THEN RedirectResponse("login", session["redirect_uri"])
             ELSE RedirectResponse("web_url", None)

\* recovery has answered a session with uid and an empty redirect_uri with the
\* landing page
C5_Witness ==
    /\ last.op = "callback_mismatch"
    /\ "uid" \in DOMAIN session
    /\ Get(session, "redirect_uri") = ""
    /\ last.resp = RedirectResponse("web_url", None)

-----------------------------------------------------------------------------
(* C6 *)

\* C6: a callback whose exchange fails, with a state mismatch or another
\* OAuth error, is always answered with a redirect, never with an error.
C6_RecoveryNeverRaises ==
    last.op \in {"callback_mismatch", "callback_oauth_error"} =>
        /\ last.resp.kind = "redirect"
        /\ last.resp.status = "302"
        /\ last.resp.error = None

\* a mismatching callback arrived while a redirect_uri with a host was stored
C6_Witness ==
    /\ last.op = "callback_mismatch"
    /\ Get(session, "redirect_uri") = "https://api.example:8443/me"
    /\ last.resp.kind = "redirect"

-----------------------------------------------------------------------------
(* C7 *)

\* C7: a callback carrying a provider error is answered, when the session's
\* prompt is "none", with a redirect to the stored redirect_uri, which the guard
\* accepted, and leaves a session without uid; otherwise it is answered with
\* the body {error, description} and status 403, and no redirect.
C7_ProviderError ==
    [][ last'.op = "callback_error" =>
          IF Get(session, "prompt") = "none"
          THEN /\ "redirect_uri" \in DOMAIN session
               /\ last'.resp = RedirectResponse("uri", session["redirect_uri"])
               /\ last'.resp.uri \in last'.guarded
               /\ "uid" \notin DOMAIN session'
          ELSE /\ last'.resp = [NoResponse EXCEPT
                                  !.kind = "json", !.status = "403",
                                  !.error = last'.req.error,
                                  !.description = last'.req.description]
      ]_vars

\* a failed silent probe was sent back to where it came from
C7_Witness ==
    /\ last.op = "callback_error"
    /\ last.req.error = "login_required"
    /\ last.resp = RedirectResponse("uri", "/dashboard")
    /\ session = EmptyDict

-----------------------------------------------------------------------------
(* C8 *)

\* C8: the login entry point, given a redirect_uri the guard rejects, raises
\* InvalidReturnToURL and leaves the session as it was; otherwise the session
\* it leaves holds the redirect_uri, the prompt if and only if one was
\* supplied, the state of the new provider redirect, and no key from before,
\* and the prompt is forwarded to the provider if and only if one was supplied.
C8_LoginEntryPoint ==
    [][ last'.op = "login" =>
          LET redirect_uri == last'.req.redirect_uri
              prompt == last'.req.prompt
          IN IF ~ensure_allowed_redirect_uri(redirect_uri)
             THEN /\ last'.resp = Raise("InvalidReturnToURL")
                  /\ session' = session
             ELSE /\ last'.resp.kind = "redirect" /\ last'.resp.to = "provider"
                  /\ StateKey(last'.resp.state) \notin DOMAIN session
                  /\ DOMAIN session' =
                        {"redirect_uri", StateKey(last'.resp.state)}
                           \cup (IF prompt # None THEN {"prompt"} ELSE {})
                  /\ session'["redirect_uri"] = redirect_uri
                  /\ prompt # None => session'["prompt"] = prompt
                  /\ last'.resp.prompt = prompt
      ]_vars

\* a login without prompt was started from a session that held a uid
C8_Witness ==
    /\ last.op = "login"
    /\ last.resp.to = "provider"
    /\ last.req.prompt = None
    /\ DOMAIN session = {"redirect_uri", StateKey(last.resp.state)}
    /\ users # {}

-----------------------------------------------------------------------------
(* C9 *)

-----------------------------------------------------------------------------
(* C10 *)

-----------------------------------------------------------------------------
(* C11 *)

\* C11: widget connect changes a user's Telegram id only when the session
\* holds a uid and the payload is signed by Telegram and fresh, and then only
\* the id of the session's user, to the payload's id; without a uid it raises
\* the no-session error, with the uid of an existing user and a payload that
\* is not signed or not fresh it raises the invalid-hash error, and in both
\* cases no Telegram id changes.
C11_ConnectOnlyCurrentUser ==
    [][ last'.op = "telegram_connect" =>
          LET p == last'.req.telegram_data
              verified == SignedByTelegram(p) /\ Fresh(p, last'.req.now)
          IN /\ telegram' # telegram =>
                  /\ "uid" \in DOMAIN session
                  /\ verified
                  /\ telegram' = Put(telegram, ObjectId(session["uid"]), p.id)
             /\ "uid" \notin DOMAIN session =>
                  /\ last'.resp = Raise("UserWithoutSessionException")
                  /\ telegram' = telegram
             /\ ("uid" \in DOMAIN session /\ ObjectId(session["uid"]) \in users
                   /\ ~verified) =>
                  /\ last'.resp = Raise("InvalidTelegramWidgetHash")
                  /\ telegram' = telegram
             /\ ("uid" \in DOMAIN session /\ ObjectId(session["uid"]) \in users
                   /\ verified) =>
                  /\ last'.resp.kind = "json" /\ last'.resp.status = "200"
                  /\ telegram' = Put(telegram, ObjectId(session["uid"]), p.id)
      ]_vars

\* the session's user has connected a Telegram account that another user
\* does not carry
C11_Witness ==
    /\ last.op = "telegram_connect"
    /\ last.resp.status = "200"
    /\ "uid" \in DOMAIN session
    /\ Cardinality(users) = 2
    /\ DOMAIN telegram = {ObjectId(session["uid"])}

-----------------------------------------------------------------------------
(* C12 *)

\* C12: the verifier accepts a payload if and only if its hash is the HMAC of
\* its own fields under the bot's key and its timestamp t satisfies
\* now - 300 < t < now + 300, strictly on both sides.
C12_VerifierAcceptsIff ==
    last.op = "validate_widget_hash" =>
        (last.req.result <=>
            /\ SignedByTelegram(last.req.telegram_data)
            /\ Fresh(last.req.telegram_data, last.req.now))

\* a correctly signed payload exactly 300 seconds old has been rejected
C12_Witness ==
    /\ last.op = "validate_widget_hash"
    /\ SignedByTelegram(last.req.telegram_data)
    /\ last.req.telegram_data.auth_date = last.req.now - 300
    /\ ~last.req.result

-----------------------------------------------------------------------------
(* C13 *)

\* C13: the redirect guard accepts a URL if and only if it parses and either
\* has no host or has a host on the allow-list; every other URL raises
\* InvalidReturnToURL.
C13_GuardAcceptsIff ==
    last.op = "ensure_allowed_redirect_uri" =>
        LET url == UrlHostname(last.req.return_to)
            acceptable == /\ ~url.raises
                          /\ url.hostname = None \/ url.hostname \in allowed_domains
        IN /\ last.req.result <=> acceptable
           /\ ~acceptable <=> last.resp = Raise("InvalidReturnToURL")
           /\ last.req.result <=>
                 last.req.return_to \in
                    {"", "/dashboard", "https://app.example/profile",
                     "https://api.example:8443/me", web_url}

\* a scheme-relative URL to a host outside the allow-list has been rejected
C13_Witness ==
    /\ last.op = "ensure_allowed_redirect_uri"
    /\ last.req.return_to = "//evil.example/steal"
    /\ last.resp = Raise("InvalidReturnToURL")

-----------------------------------------------------------------------------
(* C18 *)

\* C18: no session holds both uid and redirect_uri; so when recovery finds a
\* uid it answers with the default landing page.
C18_UidExcludesRedirectUri ==
    /\ ~("uid" \in DOMAIN session /\ "redirect_uri" \in DOMAIN session)
    /\ (last.op \in {"callback_mismatch", "callback_oauth_error"}
          /\ "uid" \in DOMAIN session) =>
            last.resp = RedirectResponse("web_url", None)

\* a callback with a stale state arrived in a session that is authenticated
C18_Witness ==
    /\ last.op = "callback_mismatch"
    /\ last.req.state # 0
    /\ "uid" \in DOMAIN session
    /\ last.resp = RedirectResponse("web_url", None)

-----------------------------------------------------------------------------
(* C19 *)

\* C19: a session that holds prompt, or the state of a provider redirect,
\* holds redirect_uri; so neither pop of redirect_uri in the callback raises
\* KeyError.
C19_PopNeverFails ==
    /\ "prompt" \in DOMAIN session => "redirect_uri" \in DOMAIN session
    /\ \A n \in 1..issued :
          StateKey(n) \in DOMAIN session => "redirect_uri" \in DOMAIN session
    /\ last.resp.error # "KeyError"
    /\ last.op = "callback_success" => last.resp.kind = "redirect"

\* a silent probe is in flight: prompt, state and redirect_uri are stored
C19_Witness ==
    /\ last.op = "login"
    /\ DOMAIN session = {"prompt", "redirect_uri", StateKey(issued)}

-----------------------------------------------------------------------------
(* C17 *)

\* C17: in the email connect operation a flow is in status sent only after
\* its verification email was handed to SMTP successfully: the handler runs
\* start_flow, render, send, set_sent in this order and stops at the first
\* that fails; when rendering or sending fails the flow it created stays
\* pending and the response is the failure, with no flow reference; when
\* both succeed the flow is sent and the response refers to it.
C17_SentOnlyAfterDispatch ==
    /\ \A f \in DOMAIN flows : flows[f].status = "sent" => flows[f].dispatched
    /\ (last.op = "email_connect" /\ last.resp.error # "UserWithoutSessionException") =>
          LET f == last.req.email_flow_id
              full == <<"start_flow", "render_verification_message", "send", "set_sent">>
          IN
          /\ f \in DOMAIN flows
          /\ last.req.steps = SubSeq(full, 1, Len(last.req.steps))
          /\ IF last.req.render_ok /\ last.req.send_ok
             THEN /\ last.req.steps = full
                  /\ flows[f].status = "sent"
                  /\ last.resp.kind = "json"
                  /\ last.resp.email_flow_id = f
             ELSE /\ flows[f].status = "pending"
                  /\ ~flows[f].dispatched
                  /\ "set_sent" \notin {last.req.steps[i] : i \in DOMAIN last.req.steps}
                  /\ last.resp.kind = "raise"

\* a connect whose message was rendered and whose send failed
C17_Witness ==
    /\ last.op = "email_connect"
    /\ last.req.render_ok /\ ~last.req.send_ok
    /\ last.req.steps = <<"start_flow", "render_verification_message", "send">>
    /\ last.resp.error = "SMTPException"
    /\ flows[last.req.email_flow_id].status = "pending"

-----------------------------------------------------------------------------
(* C14 *)

\* C14: verify_flow writes the status of a flow at most once; a request
\* that reads the flow when it is already success or expired is answered
\* with that status and leaves the flow as it was, and for a flow in status
\* success the answer carries the flow's email again.
C14_VerifyAtMostOnce ==
    /\ \A f \in DOMAIN flows : flows[f].transitions <= 1
    /\ (/\ last.op = "email_validate"
        /\ last.resp.kind = "json"
        /\ last.req.observed \in {"success", "expired"}) =>
          /\ flows[last.req.email_flow_id] = last.req.before
          /\ last.resp.flow_status = last.req.before.status
          /\ last.req.before.status = "success" =>
                last.resp.email = last.req.before.email

\* a flow in status success is verified again with its code
C14_Witness ==
    /\ last.op = "email_validate"
    /\ last.resp.kind = "json"
    /\ last.req.before # NoFlow
    /\ last.req.observed = "success"
    /\ last.req.verification_code = last.req.before.verification_code
    /\ last.resp.flow_status = "success"
    /\ last.resp.email \in Emails

-----------------------------------------------------------------------------
(* C15 *)

-----------------------------------------------------------------------------
(* C16 *)

\* C16: of the requests that verify one flow at the same time with the
\* stored code, at most one writes success: a request writes only when the
\* status is still the one it read and no request wrote before it, so a flow
\* in status success was written exactly once.
C16_AtMostOneTransition ==
    /\ \A f \in DOMAIN flows :
          flows[f].status = "success" => flows[f].transitions = 1
    /\ (last.op = "email_validate" /\ last.resp.kind = "json" /\ last.req.wrote) =>
          /\ last.req.before.status = last.req.observed
          /\ last.req.before.transitions = 0

\* two requests read sent; the second to write finds success and writes nothing
C16_Witness ==
    /\ last.op = "email_validate"
    /\ last.resp.kind = "json"
    /\ last.req.observed = "sent"
    /\ last.req.before # NoFlow
    /\ last.req.before.status = "success"
    /\ last.req.verification_code = last.req.before.verification_code
    /\ ~last.req.wrote
    /\ last.resp.flow_status = "success"

-----------------------------------------------------------------------------
(* C20 *)

\* C20: when the tabs that share one session each start an SSO login and
\* the provider signs the user in every time, then, every tab's pending
\* request being handled eventually, from some point on the session holds a
\* uid and no tab is on its way back to the login entry point.
C20_TabsEventuallySignedIn ==
    <>[](/\ "uid" \in DOMAIN session
         /\ \A t \in Tabs : tabs[t].at # "login")

=============================================================================
